---- MODULE Spec2Model ----
(***************************************************************************)
(* QReminderPlugin: the reminder store (ReminderManager), the live-task    *)
(* map and the asyncio timer tasks (QReminderPlugin._reminder_task), and   *)
(* the command handlers (MessageHandler) that create, delete, pause and    *)
(* resume reminders.                                                       *)
(*                                                                         *)
(* Time is a whole number of clock units since 2025-01-01; timedelta(days= *)
(* 1) is one unit.  int(datetime.now().timestamp()) is the clock value, so *)
(* two creates by one sender in the same unit get the same reminder id.    *)
(* Python dicts are objects: `reminders` maps an id to an object of        *)
(* `heap`, and a timer task suspended in delivery keeps a reference to the *)
(* dict it looked up.                                                      *)
(***************************************************************************)
EXTENDS Integers, FiniteSets, Sequences, TLC

\* ---------------------------------------------------------------- bounds
MaxTime == 2        \* the clock runs from StartDay to StartDay + MaxTime
MaxDelay == 2       \* a resolved time lies at most MaxDelay units ahead
MaxCreates == 2     \* calls of set_reminder_llm that store a reminder
MaxRestarts == 1    \* process exits followed by a new initialize()

StartDay == 26      \* the clock value of Init: 2025-01-27
EpochYear == 2025   \* clock value 0 is EpochYear-01-01

Senders == {"u1", "u2"}
\* the chats set_reminder_llm is called from; "u2" only sends commands
Queries == {[sender_id |-> "u1", target_type |-> "person"]}
RepeatTypes == {"none", "daily", "weekly", "monthly", "other"}

FaultKinds == {"save", "adapter", "send", "hang"}

None == -1                     \* Python None where a time is expected
NoRid == <<"", 0>>             \* the empty id of "删除提醒" with no argument
UnknownRid == <<"u1", 0>>      \* an id no create can produce (StartDay > 0)

VARIABLES
    now,            \* datetime.now()
    phase,          \* "constructed" (before initialize) or "running"
    faults,         \* what may fail: a subset of FaultKinds
    reminders,      \* ReminderManager.reminders: id -> dict object
    heap,           \* dict object -> its fields
    file,           \* reminders.json
    tasks,          \* asyncio tasks running _reminder_task
    running_tasks,  \* ReminderManager.running_tasks: id -> task
    created,        \* number of reminders stored by set_reminder_llm
    restarts,       \* number of process exits
    parser          \* a call of TimeParser.parse_time_natural: its phrase,
                    \* the clock it reads and what it returned

vars == <<now, phase, faults, reminders, heap, file, tasks, running_tasks,
          created, restarts, parser>>

\* ------------------------------------------------------------- functions
EmptyMap == [x \in {} |-> 0]

Put(f, k, v) == [x \in (DOMAIN f) \cup {k} |-> IF x = k THEN v ELSE f[x]]

Drop(f, k) == [x \in (DOMAIN f) \ {k} |-> f[x]]

Restrict(f, S) == [x \in (DOMAIN f) \cap S |-> f[x]]

FreshId(S) == CHOOSE n \in 1..(Cardinality(S) + 1) : n \notin S

\* ------------------------------------------------- calendar (datetime)
IsLeap(y) == (y % 4 = 0 /\ y % 100 # 0) \/ (y % 400 = 0)

DaysInMonth(y, m) ==
    IF m = 2 THEN (IF IsLeap(y) THEN 29 ELSE 28)
    ELSE IF m \in {4, 6, 9, 11} THEN 30 ELSE 31

RECURSIVE DateFrom(_, _, _)
DateFrom(y, m, n) ==
    IF n < DaysInMonth(y, m) THEN [year |-> y, month |-> m, day |-> n + 1]
    ELSE IF m = 12 THEN DateFrom(y + 1, 1, n - DaysInMonth(y, m))
    ELSE DateFrom(y, m + 1, n - DaysInMonth(y, m))

\* datetime.fromisoformat: the calendar date of a clock value
ToDate(t) == DateFrom(EpochYear, 1, t)

RECURSIVE DaysBefore(_, _)
DaysBefore(y, m) ==
    IF y = EpochYear /\ m = 1 THEN 0
    ELSE IF m = 1 THEN DaysBefore(y - 1, 12) + DaysInMonth(y - 1, 12)
    ELSE DaysBefore(y, m - 1) + DaysInMonth(y, m - 1)

\* the clock value of a calendar date
FromDate(y, m, d) == DaysBefore(y, m) + d - 1

\* datetime.replace(year=, month=): ValueError when the day does not exist
Replace(y, m, d) ==
    IF d <= DaysInMonth(y, m) THEN [ok |-> TRUE, t |-> FromDate(y, m, d)]
    ELSE [ok |-> FALSE, t |-> None]

\* ------------------------------------------------ ReminderManager
\* save_reminders that writes nothing
save_reminders_skip(f, rem, hp, outcome) == f

\* save_reminders: json.dump of the whole store.  "fail": open() raised and
\* the file is untouched; "torn": the write stopped after open() truncated
\* the file.  Both are caught and logged.
save_reminders(f, rem, hp, outcome) ==
    IF outcome = "ok"
    THEN [st |-> "ok", data |-> [r \in DOMAIN rem |-> hp[rem[r]]]]
    ELSE IF outcome = "torn" THEN [st |-> "corrupt", data |-> EmptyMap]
    ELSE f

\* what json.load gives load_reminders; {} when the file is missing or the
\* load raised
load_reminders(f) == IF f.st = "ok" THEN f.data ELSE EmptyMap

get_reminder(rem, rid) == IF rid \in DOMAIN rem THEN rem[rid] ELSE 0

add_reminder(rem, rid, obj) == Put(rem, rid, obj)

\* remove_reminder that forgets the del
remove_reminder_keep(rem, rid) == rem

remove_reminder(rem, rid) == IF rid \in DOMAIN rem THEN Drop(rem, rid) ELSE rem

\* self.reminders[rid].update(data): every field of data overwrites
update_reminder(hp, rem, rid, obj) ==
    IF rid \in DOMAIN rem THEN [hp EXCEPT ![rem[rid]] = hp[obj]] ELSE hp

get_user_reminders(rem, hp, user) ==
    {r \in DOMAIN rem : hp[rem[r]].sender_id = user}

\* asyncio.Task.cancel(): no effect on a finished task, otherwise
\* CancelledError is thrown into the coroutine at its await
TaskCancel(ts, tid) ==
    IF ts[tid].pc = "done" THEN ts ELSE [ts EXCEPT ![tid].must_cancel = TRUE]

\* cancel_task that drops the handle without cancelling the task
cancel_task_forget(ts, rt, rid) ==
    IF rid \in DOMAIN rt
    THEN [tasks |-> ts, running |-> Drop(rt, rid)]
    ELSE [tasks |-> ts, running |-> rt]

cancel_task(ts, rt, rid) ==
    IF rid \in DOMAIN rt
    THEN [tasks |-> TaskCancel(ts, rt[rid]), running |-> Drop(rt, rid)]
    ELSE [tasks |-> ts, running |-> rt]

add_task(rt, rid, tid) == Put(rt, rid, tid)

\* ------------------------------------------------ QReminderPlugin
\* _schedule_reminder: asyncio.create_task(_reminder_task(rid, delay))
schedule_reminder(ts, rt, rid, target_time, t) ==
    LET delay == target_time - t
        tid == FreshId(DOMAIN ts)
    IN  IF delay <= 0
        THEN [tasks |-> ts, running |-> rt, scheduled |-> FALSE]
        ELSE [tasks |-> Put(ts, tid, [rid |-> rid, wake |-> t + delay,
                                      pc |-> "sleep", must_cancel |-> FALSE,
                                      data |-> 0]),
              running |-> add_task(rt, rid, tid),
              scheduled |-> TRUE]

\* the next occurrence computed by _handle_repeat_reminder
NextTime(repeat_type, target_time) ==
    LET d == ToDate(target_time) IN
    IF repeat_type = "daily" THEN [kind |-> "ok", t |-> target_time + 1]
    ELSE IF repeat_type = "weekly" THEN [kind |-> "ok", t |-> target_time + 7]
    ELSE IF repeat_type = "monthly"
    THEN LET r == IF d.month = 12 THEN Replace(d.year + 1, 1, d.day)
                  ELSE Replace(d.year, d.month + 1, d.day)
         IN IF r.ok THEN [kind |-> "ok", t |-> r.t]
            ELSE [kind |-> "error", t |-> None]
    ELSE [kind |-> "return", t |-> None]

\* objects no dict of the store and no suspended task refers to are gone,
\* and so are finished tasks running_tasks does not hold
KeepTasks(ts, rt) ==
    Restrict(ts, {x \in DOMAIN ts :
                    ts[x].pc # "done" \/ \E r \in DOMAIN rt : rt[r] = x})

KeepObjects(hp, rem, ts) ==
    Restrict(hp, {rem[r] : r \in DOMAIN rem}
                   \cup {ts[x].data : x \in {y \in DOMAIN ts : ts[y].pc = "send"}})

Commit(rem, hp, ts, rt, f) ==
    /\ reminders' = rem
    /\ running_tasks' = rt
    /\ tasks' = KeepTasks(ts, rt)
    /\ heap' = KeepObjects(hp, rem, KeepTasks(ts, rt))
    /\ file' = f

SaveOutcomes == IF "save" \in faults THEN {"ok", "fail", "torn"} ELSE {"ok"}

\* _handle_repeat_reminder(rid, reminder_data), reminder_data being obj
handle_repeat_reminder(rid, obj, out) ==
    LET rec == heap[obj]
        nt == NextTime(rec.repeat_type, rec.target_time)
        hp1 == [heap EXCEPT ![obj].target_time = nt.t]
        hp2 == update_reminder(hp1, reminders, rid, obj)
        sch == schedule_reminder(tasks, running_tasks, rid, nt.t, now)
    IN  IF nt.kind # "ok"
        THEN [reminders |-> reminders, heap |-> heap, tasks |-> tasks,
              running |-> running_tasks, file |-> file, res |-> nt.kind]
        ELSE [reminders |-> reminders, heap |-> hp2, tasks |-> sch.tasks,
              running |-> sch.running,
              file |-> save_reminders(file, reminders, hp2, out),
              res |-> IF sch.scheduled THEN "rescheduled" ELSE "late"]

\* _reminder_task after _send_reminder_message has returned
post_fire(rid, obj, out) ==
    IF heap[obj].repeat_type # "none"
    THEN handle_repeat_reminder(rid, obj, out)
    ELSE LET rem1 == remove_reminder(reminders, rid) IN
         [reminders |-> rem1, heap |-> heap, tasks |-> tasks,
          running |-> running_tasks,
          file |-> save_reminders(file, rem1, heap, out), res |-> "removed"]

Finish(ts, tid) == [ts EXCEPT ![tid].pc = "done", ![tid].data = 0]

\* ------------------------------------------------ actions
\* parse_time_natural is not being called
NoCall == [time_str |-> << >>, clock |-> 0, answers |-> <<None, None>>,
           state |-> "none", result |-> None, by |-> "none"]

Init ==
    /\ now = StartDay
    /\ phase = "constructed"
    /\ faults = {}
    /\ reminders = EmptyMap
    /\ heap = EmptyMap
    /\ file = [st |-> "none", data |-> EmptyMap]
    /\ tasks = EmptyMap
    /\ running_tasks = EmptyMap
    /\ created = 0
    /\ restarts = 0
    /\ parser = NoCall

RECURSIVE LoadObjects(_, _, _)
LoadObjects(data, rem, hp) ==
    IF DOMAIN data = DOMAIN rem THEN [reminders |-> rem, heap |-> hp]
    ELSE LET r == CHOOSE x \in DOMAIN data : x \notin DOMAIN rem
             o == FreshId(DOMAIN hp)
         IN LoadObjects(data, Put(rem, r, o), Put(hp, o, data[r]))

\* RestoreTasks without the test of the active flag at line 29
RECURSIVE RestoreTasks_paused(_, _, _, _)
RestoreTasks_paused(S, rem, hp, acc) ==
    IF S = {} THEN acc
    ELSE LET r == CHOOSE x \in S : TRUE
             rec == hp[rem[r]]
             sch == schedule_reminder(acc.tasks, acc.running, r,
                                      rec.target_time, now)
         IN RestoreTasks_paused(S \ {r}, rem, hp,
                IF rec.target_time > now
                THEN [tasks |-> sch.tasks, running |-> sch.running]
                ELSE acc)

\* initialize, lines 28-36: a task for every active record still in the future
RECURSIVE RestoreTasks(_, _, _, _)
RestoreTasks(S, rem, hp, acc) ==
    IF S = {} THEN acc
    ELSE LET r == CHOOSE x \in S : TRUE
             rec == hp[rem[r]]
             sch == schedule_reminder(acc.tasks, acc.running, r,
                                      rec.target_time, now)
         IN RestoreTasks(S \ {r}, rem, hp,
                IF rec.active /\ rec.target_time > now
                THEN [tasks |-> sch.tasks, running |-> sch.running]
                ELSE acc)

\* QReminderPlugin.initialize
initialize ==
    /\ phase = "constructed"
    /\ LET ld == LoadObjects(load_reminders(file), EmptyMap, EmptyMap)
           rs == RestoreTasks(DOMAIN ld.reminders, ld.reminders, ld.heap,
                              [tasks |-> EmptyMap, running |-> EmptyMap])
       IN Commit(ld.reminders, ld.heap, rs.tasks, rs.running, file)
    /\ phase' = "running"
    /\ UNCHANGED <<now, faults, created, restarts, parser>>

\* the process exits: its tasks and its memory are gone, the file stays
Exit ==
    /\ phase = "running"
    /\ restarts < MaxRestarts
    /\ restarts' = restarts + 1
    /\ phase' = "constructed"
    /\ Commit(EmptyMap, EmptyMap, EmptyMap, EmptyMap, file)
    /\ UNCHANGED <<now, faults, created, parser>>

\* create_reply that lets a time equal to now through the check of line 112
create_reply_lax(target_time) ==
    IF target_time = None THEN "unresolvable"
    ELSE IF target_time < now THEN "in_past"
    ELSE "created"

\* what set_reminder_llm returns; target_time is what
\* TimeParser.parse_time_natural returned for the phrase
create_reply(target_time) ==
    IF target_time = None THEN "unresolvable"
    ELSE IF target_time <= now THEN "in_past"
    ELSE "created"

\* QReminderPlugin.set_reminder_llm
set_reminder_llm(q, content, target_time, repeat_type, out) ==
    /\ phase = "running"
    /\ created < MaxCreates
    /\ IF create_reply(target_time) # "created"
       THEN UNCHANGED <<reminders, heap, file, tasks, running_tasks, created>>
       ELSE LET rid == <<q.sender_id, now>>
                obj == FreshId(DOMAIN heap)
                hp1 == Put(heap, obj, [sender_id |-> q.sender_id,
                                       target_type |-> q.target_type,
                                       content |-> content,
                                       target_time |-> target_time,
                                       repeat_type |-> repeat_type,
                                       active |-> TRUE])
                rem1 == add_reminder(reminders, rid, obj)
                f1 == save_reminders(file, rem1, hp1, out)
                sch == schedule_reminder(tasks, running_tasks, rid,
                                         target_time, now)
            IN /\ Commit(rem1, hp1, sch.tasks, sch.running, f1)
               /\ created' = created + 1
    /\ UNCHANGED <<now, phase, faults, restarts, parser>>

\* delete_reply without the permission check of lines 68-70
delete_reply_any(sender_id, rid) ==
    IF rid = NoRid THEN "missing_id"
    ELSE IF get_reminder(reminders, rid) = 0 THEN "not_found"
    ELSE "deleted"

\* what _handle_delete_reminder replies
delete_reply(sender_id, rid) ==
    IF rid = NoRid THEN "missing_id"
    ELSE IF get_reminder(reminders, rid) = 0 THEN "not_found"
    ELSE IF heap[reminders[rid]].sender_id # sender_id THEN "forbidden"
    ELSE "deleted"

\* MessageHandler._handle_delete_reminder
handle_delete_reminder(sender_id, rid, out) ==
    /\ phase = "running"
    /\ IF delete_reply(sender_id, rid) # "deleted"
       THEN UNCHANGED <<reminders, heap, file, tasks, running_tasks>>
       ELSE LET c == cancel_task(tasks, running_tasks, rid)
                rem1 == remove_reminder(reminders, rid)
            IN Commit(rem1, heap, c.tasks, c.running,
                      save_reminders(file, rem1, heap, out))
    /\ UNCHANGED <<now, phase, faults, created, restarts, parser>>

\* what _toggle_reminder replies.  MessageHandler has no _schedule_reminder
\* (it is a method of QReminderPlugin), so line 123 raises AttributeError,
\* which the handler's except clause answers with "操作失败".
toggle_reply(sender_id, rid, active) ==
    IF rid = NoRid THEN "missing_id"
    ELSE IF get_reminder(reminders, rid) = 0 THEN "not_found"
    ELSE IF heap[reminders[rid]].sender_id # sender_id THEN "forbidden"
    ELSE IF ~active THEN "paused"
    ELSE IF heap[reminders[rid]].target_time > now THEN "failed"
    ELSE "resumed"

\* MessageHandler._toggle_reminder
toggle_reminder(sender_id, rid, active, out) ==
    /\ phase = "running"
    /\ IF toggle_reply(sender_id, rid, active)
             \in {"missing_id", "not_found", "forbidden"}
       THEN UNCHANGED <<reminders, heap, file, tasks, running_tasks>>
       ELSE LET obj == reminders[rid]
                hp1 == [heap EXCEPT ![obj].active = active]
                hp2 == update_reminder(hp1, reminders, rid, obj)
                f1 == save_reminders(file, reminders, hp2, out)
                c == cancel_task(tasks, running_tasks, rid)
            IN IF active
               THEN Commit(reminders, hp2, tasks, running_tasks, f1)
               ELSE Commit(reminders, hp2, c.tasks, c.running, f1)
    /\ UNCHANGED <<now, phase, faults, created, restarts, parser>>

Adapters == IF "adapter" \in faults THEN {TRUE, FALSE} ELSE {TRUE}

SendOutcomes == IF "send" \in faults THEN {"sent", "error"} ELSE {"sent"}

\* asyncio.sleep(delay) returns: the task is not cancelled and its time has come
Expired(t) == t.pc = "sleep" /\ ~t.must_cancel /\ t.wake <= now

\* _send_reminder_message reaches adapter.send_*_message, the delivery callback
Sends(obj, adapter) == adapter /\ heap[obj].target_type \in {"person", "group"}

\* _reminder_task from the return of asyncio.sleep to its next await:
\* the lookup, and _send_reminder_message up to adapter.send_*_message.
\* Without an adapter (or with an unknown target type) nothing is awaited
\* and the task runs on to its end.
reminder_task_fire(tid, adapter, out) ==
    /\ phase = "running"
    /\ tid \in DOMAIN tasks
    /\ Expired(tasks[tid])
    /\ LET rid == tasks[tid].rid
           obj == get_reminder(reminders, rid)
       IN IF obj = 0
          THEN Commit(reminders, heap, Finish(tasks, tid), running_tasks, file)
          ELSE IF Sends(obj, adapter)
          THEN Commit(reminders, heap,
                      [tasks EXCEPT ![tid].pc = "send", ![tid].data = obj],
                      running_tasks, file)
          ELSE LET pf == post_fire(rid, obj, out) IN
               Commit(pf.reminders, pf.heap, Finish(pf.tasks, tid),
                      pf.running, pf.file)
    /\ UNCHANGED <<now, phase, faults, created, restarts, parser>>

\* _reminder_task from the return (or the exception) of adapter.send_*_message
\* to its end; the exception is caught and logged in _send_reminder_message
reminder_task_resume(tid, send, out) ==
    /\ phase = "running"
    /\ tid \in DOMAIN tasks
    /\ tasks[tid].pc = "send"
    /\ ~tasks[tid].must_cancel
    /\ LET pf == post_fire(tasks[tid].rid, tasks[tid].data, out)
       IN Commit(pf.reminders, pf.heap, Finish(pf.tasks, tid), pf.running,
                 pf.file)
    /\ UNCHANGED <<now, phase, faults, created, restarts, parser>>

\* CancelledError arrives at the task's await: except asyncio.CancelledError
reminder_task_cancelled(tid) ==
    /\ phase = "running"
    /\ tid \in DOMAIN tasks
    /\ tasks[tid].pc # "done"
    /\ tasks[tid].must_cancel
    /\ Commit(reminders, heap, Finish(tasks, tid), running_tasks, file)
    /\ UNCHANGED <<now, phase, faults, created, restarts, parser>>

\* the clock advances.  The event loop runs a timer when it is due, and a
\* send returns within the clock unit unless the transport hangs.
Tick ==
    /\ now < StartDay + MaxTime
    /\ \A x \in DOMAIN tasks : ~Expired(tasks[x])
    /\ "hang" \in faults \/ \A x \in DOMAIN tasks : tasks[x].pc # "send"
    /\ now' = now + 1
    /\ UNCHANGED <<phase, faults, reminders, heap, file, tasks, running_tasks,
                   created, restarts, parser>>

RidInputs == (DOMAIN reminders) \cup {NoRid, UnknownRid}

TimeInputs == {None} \cup (now .. now + MaxDelay)

Next ==
    \/ initialize
    \/ Exit
    \/ Tick
    \/ \E q \in Queries, tt \in TimeInputs, r \in RepeatTypes,
          out \in SaveOutcomes : set_reminder_llm(q, created + 1, tt, r, out)
    \/ \E u \in Senders, rid \in RidInputs, out \in SaveOutcomes :
          handle_delete_reminder(u, rid, out)
    \/ \E u \in Senders, rid \in RidInputs, a \in BOOLEAN, out \in SaveOutcomes :
          toggle_reminder(u, rid, a, out)
    \/ \E tid \in DOMAIN tasks, ad \in Adapters, out \in SaveOutcomes :
          reminder_task_fire(tid, ad, out)
    \/ \E tid \in DOMAIN tasks, s \in SendOutcomes, out \in SaveOutcomes :
          reminder_task_resume(tid, s, out)
    \/ \E tid \in DOMAIN tasks : reminder_task_cancelled(tid)

Spec == Init /\ [][Next]_vars

TypeOK ==
    /\ now \in StartDay .. (StartDay + MaxTime)
    /\ phase \in {"constructed", "running"}
    /\ faults \subseteq FaultKinds
    /\ \A r \in DOMAIN reminders : reminders[r] \in DOMAIN heap
    /\ \A r \in DOMAIN running_tasks : running_tasks[r] \in DOMAIN tasks
    /\ \A x \in DOMAIN tasks : tasks[x].pc = "send" => tasks[x].data \in DOMAIN heap

\* ------------------------------------------------ properties
\* a live task: pending (asleep or suspended in delivery) and not cancelled
LiveTask(x) == tasks[x].pc \in {"sleep", "send"} /\ ~tasks[x].must_cancel

LiveTasksOf(rid) == {x \in DOMAIN tasks : tasks[x].rid = rid /\ LiveTask(x)}

Rids == (DOMAIN reminders) \cup {tasks[x].rid : x \in DOMAIN tasks}

Record(rid) == heap[reminders[rid]]

ToggleStep(u, rid, a) == \E out \in SaveOutcomes : toggle_reminder(u, rid, a, out)

DeleteStep(u, rid) == \E out \in SaveOutcomes : handle_delete_reminder(u, rid, out)

\* C1: between operations, a record with active=true has exactly one live
\* task for its id, and a paused or absent record has none.
C1_ActiveIffOneLiveTask ==
    phase = "running" =>
        \A rid \in Rids :
            IF rid \in DOMAIN reminders /\ Record(rid).active
            THEN Cardinality(LiveTasksOf(rid)) = 1
            ELSE LiveTasksOf(rid) = {}

\* C2: a resume of a paused reminder whose due time is still in the future
\* reports success and leaves a live task scheduled for the id at due_at.
C2_ResumeBeforeDueRearms ==
    [][\A u \in Senders, rid \in DOMAIN reminders :
         (/\ ToggleStep(u, rid, TRUE)
          /\ Record(rid).sender_id = u
          /\ ~Record(rid).active
          /\ Record(rid).target_time > now)
         => /\ toggle_reply(u, rid, TRUE) = "resumed"
            /\ \E x \in LiveTasksOf(rid)' :
                  tasks'[x].wake = Record(rid).target_time]_vars

\* C3: a resume of a paused reminder whose due time has passed reports
\* success, makes the record active, schedules no task, and leaves no live
\* task for the id that could still deliver for that due time.
C3_ResumeAfterDueStaysSilent ==
    [][\A u \in Senders, rid \in DOMAIN reminders :
         (/\ ToggleStep(u, rid, TRUE)
          /\ Record(rid).sender_id = u
          /\ ~Record(rid).active
          /\ Record(rid).target_time <= now)
         => /\ toggle_reply(u, rid, TRUE) = "resumed"
            /\ Record(rid)'.active
            /\ tasks' = tasks /\ running_tasks' = running_tasks
            /\ LiveTasksOf(rid)' = {}]_vars

FireStep(x) ==
    \E ad \in Adapters, out \in SaveOutcomes : reminder_task_fire(x, ad, out)

ResumeStep(x) ==
    \E sd \in SendOutcomes, out \in SaveOutcomes : reminder_task_resume(x, sd, out)

\* the delivery callback is invoked for the record the task looked up
Delivers(x) == FireStep(x) /\ x \in DOMAIN tasks' /\ tasks'[x].pc = "send"

\* the fire handler of task x runs to its end on dict object obj
Completes(x, obj) ==
    \/ ResumeStep(x) /\ obj = tasks[x].data
    \/ /\ FireStep(x) /\ ~Delivers(x)
       /\ obj # 0 /\ obj = get_reminder(reminders, tasks[x].rid)

Persisted(rid) ==
    /\ file.st = "ok"
    /\ rid \in DOMAIN file.data
    /\ rid \in DOMAIN reminders
    /\ file.data[rid] = Record(rid)

\* C4: after the owner's delete of a created id the store does not contain
\* the id, get(id) finds nothing, and no live task is left for the id, so
\* the reminder cannot be delivered any more.
C4_DeleteLeavesNothing ==
    [][\A u \in Senders, rid \in DOMAIN reminders :
         (DeleteStep(u, rid) /\ delete_reply(u, rid) = "deleted")
         => /\ rid \notin DOMAIN reminders'
            /\ get_reminder(reminders', rid) = 0
            /\ LiveTasksOf(rid)' = {}]_vars

C6_FireNeverActsOnAbsentId ==
    [][\A x \in DOMAIN tasks : \A rid \in {tasks[x].rid} :
         (rid \notin DOMAIN reminders /\ (FireStep(x) \/ ResumeStep(x)))
         => /\ rid \notin DOMAIN reminders'
            /\ file' = file
            /\ LiveTasksOf(rid)' \subseteq (LiveTasksOf(rid) \ {x})]_vars

\* C7: the delivery callback is never invoked for an id before the due_at
\* its record holds at that moment.
C7_NeverDeliveredEarly ==
    [][\A x \in DOMAIN tasks :
         Delivers(x) => now >= Record(tasks[x].rid).target_time]_vars

\* C9: when the fire handler of a record with recurrence none has run to its
\* end, the id is neither in the store nor in the file, and the handler has
\* created no task.
C9_OneShotFireRemoves ==
    [][\A x \in DOMAIN tasks, obj \in DOMAIN heap :
         (Completes(x, obj) /\ heap[obj].repeat_type = "none")
         => /\ tasks[x].rid \notin DOMAIN reminders'
            /\ file'.st = "ok" /\ tasks[x].rid \notin DOMAIN file'.data
            /\ DOMAIN tasks' \subseteq DOMAIN tasks
            /\ running_tasks' = running_tasks]_vars

\* a one-shot fire has completed: its finished handle is all that is left
C9_Witness ==
    \E rid \in DOMAIN running_tasks :
        /\ tasks[running_tasks[rid]].pc = "done"
        /\ rid \notin DOMAIN reminders
        /\ file.st = "ok" /\ rid \notin DOMAIN file.data

\* C10: when the fire handler of a daily (weekly) record has run to its end,
\* the record's due_at is the previous one plus 1 (7) days, an active record
\* is still active, the file holds the record, and exactly one new live
\* task, due at the new due_at, exists for the id.
C10_RecurrenceAdvances ==
    [][\A x \in DOMAIN tasks, obj \in DOMAIN heap : \A rid \in {tasks[x].rid} :
         \A step \in {IF heap[obj].repeat_type = "daily" THEN 1 ELSE 7} :
         (Completes(x, obj) /\ heap[obj].repeat_type \in {"daily", "weekly"})
         => /\ rid \in DOMAIN reminders /\ rid \in DOMAIN reminders'
            /\ Record(rid)'.target_time = Record(rid).target_time + step
            /\ Record(rid).active => Record(rid)'.active
            /\ Persisted(rid)'
            /\ \E y \in LiveTasksOf(rid)' :
                  /\ y \notin DOMAIN tasks
                  /\ tasks'[y].wake = Record(rid)'.target_time
                  /\ \A z \in LiveTasksOf(rid)' : z \notin DOMAIN tasks => z = y]_vars

\* the plugin left alone: reminders are created and fire, nobody pauses or
\* deletes, the process stays up, time advances and every task that can run
\* is run
NextUndisturbed ==
    \/ initialize
    \/ Tick
    \/ \E q \in Queries, tt \in TimeInputs, r \in RepeatTypes,
          out \in SaveOutcomes : set_reminder_llm(q, created + 1, tt, r, out)
    \/ \E tid \in DOMAIN tasks, ad \in Adapters, out \in SaveOutcomes :
          reminder_task_fire(tid, ad, out)
    \/ \E tid \in DOMAIN tasks, sd \in SendOutcomes, out \in SaveOutcomes :
          reminder_task_resume(tid, sd, out)

SpecUndisturbed ==
    /\ Init
    /\ [][NextUndisturbed]_vars
    /\ WF_vars(initialize)
    /\ WF_vars(Tick)
    /\ WF_vars(\E tid \in DOMAIN tasks : FireStep(tid))
    /\ WF_vars(\E tid \in DOMAIN tasks : ResumeStep(tid))

\* the reminder created with content c is stored and its due time is to come
Pending(c) ==
    \E rid \in DOMAIN reminders :
        /\ Record(rid).content = c
        /\ Record(rid).target_time > now
        /\ Record(rid).target_time <= StartDay + MaxTime

\* the delivery callback is running with content c
Delivering(c) ==
    \E x \in DOMAIN tasks :
        tasks[x].pc = "send" /\ heap[tasks[x].data].content = c

\* C8: a reminder created with a future time, and neither paused nor
\* deleted, is eventually handed to the delivery callback with its content.
C8_EventuallyDelivered ==
    \A c \in 1..MaxCreates : [](Pending(c) => <>Delivering(c))

\* the fire handler of task x runs to its end on the record stored under
\* its id, x being the handle registered for the id and its only live task
CompletesAlone(x, obj) ==
    /\ Completes(x, obj)
    /\ tasks[x].rid \in DOMAIN reminders
    /\ reminders[tasks[x].rid] = obj
    /\ tasks[x].rid \in DOMAIN running_tasks
    /\ running_tasks[tasks[x].rid] = x
    /\ LiveTasksOf(tasks[x].rid) = {x}

\* C11: when the fire handler of a monthly record has run to its end, the
\* record's due_at is strictly later: the same day of the following month
\* (January of the next year after December), and a live task due at the
\* new due_at exists for the id; this for every due_at, month-end included.
C11_MonthlyAdvances ==
    [][\A x \in DOMAIN tasks, obj \in DOMAIN heap : \A rid \in {tasks[x].rid} :
         (CompletesAlone(x, obj) /\ heap[obj].repeat_type = "monthly")
         => /\ rid \in DOMAIN reminders'
            /\ Record(rid)'.target_time > Record(rid).target_time
            /\ \A d \in {ToDate(Record(rid).target_time)} :
               \A e \in {ToDate(Record(rid)'.target_time)} :
                  /\ e.day = d.day
                  /\ IF d.month = 12
                     THEN e.year = d.year + 1 /\ e.month = 1
                     ELSE e.year = d.year /\ e.month = d.month + 1
            /\ \E y \in LiveTasksOf(rid)' :
                  tasks'[y].wake = Record(rid)'.target_time]_vars

\* the plugin where delivery may fail: the host may have no adapter and
\* adapter.send_*_message may raise
InitDeliveryFaults ==
    /\ now = StartDay
    /\ phase = "constructed"
    /\ faults = {"adapter", "send"}
    /\ reminders = EmptyMap
    /\ heap = EmptyMap
    /\ file = [st |-> "none", data |-> EmptyMap]
    /\ tasks = EmptyMap
    /\ running_tasks = EmptyMap
    /\ created = 0
    /\ restarts = 0
    /\ parser = NoCall

SpecDeliveryFaults == InitDeliveryFaults /\ [][Next]_vars

\* the delivery of task x fails: _send_reminder_message finds no adapter, or
\* adapter.send_*_message raises, and the task runs on
FailedDelivery(x) ==
    \/ /\ "adapter" \in faults
       /\ \E out \in SaveOutcomes : reminder_task_fire(x, FALSE, out)
    \/ /\ "send" \in faults
       /\ \E out \in SaveOutcomes : reminder_task_resume(x, "error", out)

\* the records and the pending tasks of the ids other than rid are as before
OthersUntouched(rid) ==
    /\ \A r \in (DOMAIN reminders) \ {rid} :
          r \in DOMAIN reminders' /\ Record(r)' = Record(r)
    /\ \A y \in DOMAIN tasks :
          (tasks[y].rid # rid /\ tasks[y].pc # "done")
          => (y \in DOMAIN tasks' /\ tasks'[y] = tasks[y])
    /\ \A r \in (DOMAIN running_tasks) \ {rid} :
          r \in DOMAIN running_tasks' /\ running_tasks'[r] = running_tasks[r]

\* C12: after a failed delivery the fire handler still runs to its end: a
\* record with recurrence none is removed, a daily, weekly or monthly record
\* has a later due_at and a new live task due then, and the records and
\* tasks of other ids are untouched.
C12_FailedDeliveryStillCompletes ==
    [][\A x \in DOMAIN tasks, obj \in DOMAIN heap : \A rid \in {tasks[x].rid} :
         (CompletesAlone(x, obj) /\ FailedDelivery(x))
         => /\ OthersUntouched(rid)
            /\ heap[obj].repeat_type = "none" => rid \notin DOMAIN reminders'
            /\ heap[obj].repeat_type \in {"daily", "weekly", "monthly"}
               => /\ rid \in DOMAIN reminders'
                  /\ Record(rid)'.target_time > Record(rid).target_time
                  /\ \E y \in LiveTasksOf(rid)' :
                        /\ y \notin DOMAIN tasks
                        /\ tasks'[y].wake = Record(rid)'.target_time]_vars

\* C13: a delete, pause or resume of an id the store does not hold replies
\* not-found, one by a sender who is not the record's sender_id replies
\* forbidden, and either leaves the store, the records, the file, the tasks
\* and the live-task map as they were.
C13_RejectedRequestChangesNothing ==
    [][\A u \in Senders, rid \in RidInputs \ {NoRid} :
         \A want \in {IF rid \notin DOMAIN reminders THEN "not_found"
                      ELSE IF Record(rid).sender_id # u THEN "forbidden"
                      ELSE "allowed"} :
         /\ (want # "allowed" /\ DeleteStep(u, rid))
            => /\ delete_reply(u, rid) = want
               /\ UNCHANGED <<reminders, heap, file, tasks, running_tasks>>
         /\ \A a \in BOOLEAN :
            (want # "allowed" /\ ToggleStep(u, rid, a))
            => /\ toggle_reply(u, rid, a) = want
               /\ UNCHANGED <<reminders, heap, file, tasks, running_tasks>>]_vars

\* a stored record with a pending timer, and a sender who does not own it
C13_Witness ==
    /\ phase = "running"
    /\ \E rid \in DOMAIN reminders, u \in Senders :
          /\ Record(rid).sender_id # u
          /\ delete_reply(u, rid) = "forbidden"
          /\ toggle_reply(u, rid, FALSE) = "forbidden"
          /\ delete_reply(u, UnknownRid) = "not_found"
          /\ LiveTasksOf(rid) # {}
          /\ Persisted(rid)

CreateStep(tt) ==
    \E q \in Queries, r \in RepeatTypes, out \in SaveOutcomes :
        set_reminder_llm(q, created + 1, tt, r, out)

\* C14: set_reminder_llm with a phrase that resolves to nothing, or to a
\* time not after now, returns an error, adds no record to the store or to
\* the file, and schedules no task.
C14_BadTimeCreatesNothing ==
    [][\A tt \in TimeInputs :
         ((tt = None \/ tt <= now) /\ CreateStep(tt))
         => /\ create_reply(tt) = (IF tt = None THEN "unresolvable" ELSE "in_past")
            /\ UNCHANGED <<reminders, heap, file, tasks, running_tasks>>]_vars

\* set_reminder_llm can be called, with reminders stored and timers pending
C14_Witness ==
    /\ phase = "running"
    /\ created > 0 /\ created < MaxCreates
    /\ create_reply(None) = "unresolvable"
    /\ create_reply(now) = "in_past"
    /\ \E rid \in DOMAIN reminders : LiveTasksOf(rid) # {} /\ Persisted(rid)

\* C15: initialize loads the records of the file as they are, leaves the
\* file alone, and creates one sleeping task, due at the record's due_at, for
\* exactly the records that are active and due after now; an active record
\* that is already due, and a paused record, get no task and no delivery.
C15_RecoveryReplaysFuture ==
    [][initialize
       => /\ file' = file
          /\ DOMAIN reminders' = DOMAIN load_reminders(file)
          /\ \A x \in DOMAIN tasks' :
                tasks'[x].pc = "sleep" /\ tasks'[x].rid \in DOMAIN reminders'
          /\ \A rid \in DOMAIN reminders' :
                /\ Record(rid)' = load_reminders(file)[rid]
                /\ IF Record(rid)'.active /\ Record(rid)'.target_time > now
                   THEN /\ rid \in DOMAIN running_tasks'
                        /\ LiveTasksOf(rid)' = {running_tasks'[rid]}
                        /\ tasks'[running_tasks'[rid]].wake
                              = Record(rid)'.target_time
                   ELSE /\ rid \notin DOMAIN running_tasks'
                        /\ LiveTasksOf(rid)' = {}]_vars

\* after a restart: an active record already due and without a task, next
\* to a record that got its task back
C15_Witness ==
    /\ phase = "running"
    /\ restarts > 0
    /\ \E r1 \in DOMAIN reminders, r2 \in DOMAIN reminders :
          /\ Record(r1).active /\ Record(r1).target_time <= now
          /\ LiveTasksOf(r1) = {} /\ r1 \notin DOMAIN running_tasks
          /\ Record(r2).active /\ Record(r2).target_time > now
          /\ LiveTasksOf(r2) # {}

\* the store as json.dump would write it
Stored == [r \in DOMAIN reminders |-> heap[reminders[r]]]

\* C16: with no save failing, between operations the content of the file is
\* the in-memory store: every create, delete, pause, resume, one-shot fire
\* and recurrence advance is followed by its save before the operation ends.
C16_WriteThrough ==
    phase = "running" => load_reminders(file) = Stored

\* a pause and a recurrence advance have completed and are in the file
C16_Witness ==
    /\ phase = "running"
    /\ file.st = "ok"
    /\ file.data = Stored
    /\ \E r1 \in DOMAIN reminders, r2 \in DOMAIN reminders :
          /\ ~Record(r1).active
          /\ Record(r2).repeat_type = "daily"
          /\ Record(r2).target_time > r2[2] + MaxDelay

\* ------------------------------------------------ TimeParser
\* A datetime is a number of seconds since EpochYear-01-01 00:00:00.  A
\* phrase is a sequence of tokens: a decimal digit, a punctuation mark, or a
\* word the parser looks for, written in pinyin:
\*   xiaoshi 小时  shi 时  fenzhong 分钟  fen 分  tian 天  hou 后  dian 点
\*   jintian 今天  mingtian 明天  houtian 后天
\*   shangwu 上午  xiawu 下午  wanshang 晚上  colon_fw ：
\*   zhou1..zhou7 周一..周日  xingqi1..xingqi7 星期一..星期日
\*   libai1..libai7 礼拜一..礼拜日
DigitChars == <<"0", "1", "2", "3", "4", "5", "6", "7", "8", "9">>

Digit(c) == \E n \in 1..10 : DigitChars[n] = c

Val(c) == (CHOOSE n \in 1..10 : DigitChars[n] = c) - 1

DayOf(t) == t \div 86400

HourOf(t) == (t % 86400) \div 3600

MinuteOf(t) == (t % 3600) \div 60

At(day, hour, minute, second) == day * 86400 + hour * 3600 + minute * 60 + second

\* datetime.weekday(): Monday is 0
WeekdayOf(day) ==
    (365 * (EpochYear - 1) + ((EpochYear - 1) \div 4) - ((EpochYear - 1) \div 100)
       + ((EpochYear - 1) \div 400) + day) % 7

\* the leftmost of a set of places
FirstOf(S) == CHOOSE x \in S : \A y \in S : x <= y

Has(s, w) == \E i \in 1..Len(s) : s[i] = w

Without(s, W) == SelectSeq(s, LAMBDA c : c \notin W)

RECURSIVE ReplaceAll(_, _, _)
ReplaceAll(s, w, r) ==
    IF s = << >> THEN << >>
    ELSE (IF Head(s) = w THEN r ELSE <<Head(s)>>) \o ReplaceAll(Tail(s), w, r)

\* strftime("%Y-%m-%d") of the date d
DateTokensOf(d) ==
    <<DigitChars[(d.year \div 1000) + 1], DigitChars[((d.year \div 100) % 10) + 1],
      DigitChars[((d.year \div 10) % 10) + 1], DigitChars[(d.year % 10) + 1], "-",
      DigitChars[(d.month \div 10) + 1], DigitChars[(d.month % 10) + 1], "-",
      DigitChars[(d.day \div 10) + 1], DigitChars[(d.day % 10) + 1]>>

DateTokens(day) == DateTokensOf(ToDate(day))

\* _preprocess_time_string, lines 56-66, u being the string after line 54
ReplaceDayWords(u, t) ==
    IF Has(u, "jintian") THEN ReplaceAll(u, "jintian", DateTokens(DayOf(t)))
    ELSE IF Has(u, "mingtian") THEN ReplaceAll(u, "mingtian", DateTokens(DayOf(t) + 1))
    ELSE IF Has(u, "houtian") THEN ReplaceAll(u, "houtian", DateTokens(DayOf(t) + 2))
    ELSE u

\* _preprocess_time_string
preprocess_time_string(s, t) ==
    ReplaceDayWords(
        ReplaceAll(ReplaceAll(s, "xiaoshi", <<"shi">>), "fenzhong", <<"fen">>), t)

\* (\d{1,2}) at place k: two digits when there are two
TwoDigits(s, k) == k + 1 <= Len(s) /\ Digit(s[k + 1])

GroupValue(s, k) ==
    IF TwoDigits(s, k) THEN 10 * Val(s[k]) + Val(s[k + 1]) ELSE Val(s[k])

\* [:：]? at place j: the place after it
AfterColon(s, j) == IF j <= Len(s) /\ s[j] \in {":", "colon_fw"} THEN j + 1 ELSE j

\* (\d{1,2})? at place k: int(group(2)) if group(2) else 0
MinuteGroup(s, k) == IF k <= Len(s) /\ Digit(s[k]) THEN GroupValue(s, k) ELSE 0

DigitPlaces(s) == {i \in 1..Len(s) : Digit(s[i])}

\* the match that starts at the digit at place i
TimeMatchAt(s, i) ==
    [ok |-> TRUE, hour |-> GroupValue(s, i),
     minute |-> MinuteGroup(s, AfterColon(s, IF TwoDigits(s, i) THEN i + 2
                                             ELSE i + 1))]

\* re.search(r'(\d{1,2})[:：]?(\d{1,2})?', s): the first digit starts the
\* match, and every group takes as much as it can
TimeMatch(s) ==
    IF DigitPlaces(s) = {} THEN [ok |-> FALSE, hour |-> 0, minute |-> 0]
    ELSE TimeMatchAt(s, FirstOf(DigitPlaces(s)))

\* int() of the digits that end at position i
RECURSIVE NumberEnding(_, _)
NumberEnding(s, i) ==
    IF i = 0 \/ ~Digit(s[i]) THEN 0
    ELSE 10 * NumberEnding(s, i - 1) + Val(s[i])

\* the places of <unit>后 after a digit
RelativePlaces(s, unit) ==
    {k \in 2..(Len(s) - 1) : s[k] = unit /\ s[k + 1] = "hou" /\ Digit(s[k - 1])}

\* re.search(r'(\d+)<unit>后', s)
RelativeMatch(s, unit) ==
    IF RelativePlaces(s, unit) = {} THEN [ok |-> FALSE, n |-> 0]
    ELSE [ok |-> TRUE, n |-> NumberEnding(s, FirstOf(RelativePlaces(s, unit)) - 1)]

\* _combine_date_time: strptime("%H:%M") raises ValueError, which is caught,
\* for an hour over 23 or a minute over 59
combine_date_time(day, hour, minute) ==
    IF hour <= 23 /\ minute <= 59 THEN At(day, hour, minute, 0) ELSE None

\* lines 179-182, a day earlier or later being a week later or not
DaysAhead(days_ahead) == IF days_ahead <= 0 THEN days_ahead + 7 ELSE days_ahead

\* _get_next_weekday with days_ahead < 0 where the code has <= 0
get_next_weekday_same_day(weekday, t) ==
    DayOf(t) + (((weekday - WeekdayOf(DayOf(t))) + 7) % 7)

\* _get_next_weekday: the date it returns
get_next_weekday(weekday, t) == DayOf(t) + DaysAhead(weekday - WeekdayOf(DayOf(t)))

\* weekday_map, in the order of the dict
WeekdayNames ==
    <<"zhou1", "zhou2", "zhou3", "zhou4", "zhou5", "zhou6", "zhou7",
      "xingqi1", "xingqi2", "xingqi3", "xingqi4", "xingqi5", "xingqi6", "xingqi7",
      "libai1", "libai2", "libai3", "libai4", "libai5", "libai6", "libai7">>

WeekdayNum(i) == (i - 1) % 7

\* the entries of weekday_map whose name is in the string
NamesIn(s) == {i \in 1..Len(WeekdayNames) : Has(s, WeekdayNames[i])}

\* lines 80-86, N being the names found and m the match of line 79
WeekdayResult(t, N, m) ==
    IF N = {} \/ ~m.ok THEN None
    ELSE combine_date_time(get_next_weekday(WeekdayNum(FirstOf(N)), t),
                           m.hour, m.minute)

\* _parse_weekday_time
parse_weekday_time(s, t) == WeekdayResult(t, NamesIn(s), TimeMatch(s))

\* lines 95-112, d, h and m being the matches of lines 94, 101 and 107
RelativeResult(t, d, h, m) ==
    IF d.ok THEN combine_date_time(DayOf(t + d.n * 86400), HourOf(t), MinuteOf(t))
    ELSE IF h.ok THEN t + h.n * 3600
    ELSE IF m.ok THEN t + m.n * 60
    ELSE None

\* _parse_relative_days
parse_relative_days(s, t) ==
    RelativeResult(t, RelativeMatch(s, "tian"), RelativeMatch(s, "xiaoshi"),
                   RelativeMatch(s, "fenzhong"))

\* lines 122-127 and 167-172: today, or tomorrow when the time of day is past
TodayOrTomorrow(hour, minute, t) ==
    combine_date_time(
        IF hour < HourOf(t) \/ (hour = HourOf(t) /\ minute <= MinuteOf(t))
        THEN DayOf(t) + 1 ELSE DayOf(t),
        hour, minute)

\* lines 118-128, m being the match of line 117
SpecificResult(m, t) ==
    IF m.ok THEN TodayOrTomorrow(m.hour, m.minute, t) ELSE None

\* _parse_specific_time
parse_specific_time(s, t) == SpecificResult(TimeMatch(s), t)

\* _parse_with_dateparser, answer being what dateparser.parse returned
parse_with_dateparser(answer, t) ==
    IF answer # None /\ answer > t THEN answer ELSE None

\* is_pm of lines 145-152
Marker(s) ==
    IF Has(s, "shangwu") THEN "am"
    ELSE IF Has(s, "xiawu") \/ Has(s, "wanshang") THEN "pm"
    ELSE "none"

\* the string after lines 146 and 149
StripMarker(s, is_pm) ==
    IF is_pm = "am" THEN Without(s, {"shangwu"})
    ELSE IF is_pm = "pm" THEN Without(s, {"xiawu", "wanshang"})
    ELSE s

\* lines 161-165
ManualHour(is_pm, hour) ==
    IF is_pm = "pm" /\ hour < 12 THEN hour + 12
    ELSE IF is_pm = "am" /\ hour = 12 THEN 0
    ELSE hour

\* lines 156-173, m being the match of line 155
ManualResult(is_pm, m, t) ==
    IF m.ok THEN TodayOrTomorrow(ManualHour(is_pm, m.hour), m.minute, t) ELSE None

\* _parse_time_manual
parse_time_manual(s, t) ==
    ManualResult(Marker(s), TimeMatch(StripMarker(s, Marker(s))), t)

\* line 31 without the comparison with datetime.now()
Accepted_any(result, t) == result # None

\* lines 31 and 38: if result and result > datetime.now()
Accepted(result, t) == result # None /\ result > t

\* the parsers list applied to one string
Strategies(s, answer, t) ==
    <<[by |-> "weekday", result |-> parse_weekday_time(s, t)],
      [by |-> "relative", result |-> parse_relative_days(s, t)],
      [by |-> "specific", result |-> parse_specific_time(s, t)],
      [by |-> "dateparser", result |-> parse_with_dateparser(answer, t)],
      [by |-> "manual", result |-> parse_time_manual(s, t)]>>

\* the first of the results at the places G, or None
Pick(all, G) ==
    IF G = {} THEN [by |-> "none", result |-> None] ELSE all[FirstOf(G)]

\* the return of lines 29-42: the first result that is accepted
FirstAccepted(all, t) ==
    Pick(all, {i \in 1..Len(all) : Accepted(all[i].result, t)})

\* parse_time_natural: the processed string through every parser, then the
\* original string; answers are dateparser's for the two strings
parse_time_natural(time_str, t, answers) ==
    FirstAccepted(Strategies(preprocess_time_string(time_str, t), answers[1], t)
                     \o Strategies(time_str, answers[2], t), t)

\* the values of datetime.now() a call is made at
Clocks ==
    {At(FromDate(EpochYear, 6, 8), 14, 0, 0),     \* Sunday afternoon
     At(FromDate(EpochYear, 6, 8), 14, 0, 30),
     At(FromDate(EpochYear, 6, 7), 8, 15, 0),     \* Saturday morning
     At(FromDate(EpochYear, 6, 7), 22, 45, 10),
     At(FromDate(EpochYear, 6, 9), 3, 0, 0),      \* Monday, 3 o'clock
     At(FromDate(EpochYear, 12, 31), 23, 50, 0)}  \* the year's last minutes

\* the phrases a call is made with
Phrases ==
    {<<"5", "fenzhong", "hou">>, <<"3", "0", "fenzhong", "hou">>,
     <<"2", "xiaoshi", "hou">>, <<"3", "tian", "hou">>, <<"0", "tian", "hou">>,
     <<"0", "fenzhong", "hou">>,
     <<"xiawu", "3", "dian">>, <<"shangwu", "1", "2", "dian">>,
     <<"wanshang", "9", "dian">>, <<"1", "5", ":", "3", "0">>,
     <<"zhou6", "wanshang", "9", "dian">>, <<"xingqi7", "1", "0", ":", "3", "0">>,
     <<"libai1", "xiawu", "3", "dian">>, <<"zhou6", "2", "5", "dian">>,
     <<"zhou6", "wanshang">>,
     <<"mingtian", "xiawu", "3", "dian">>, <<"jintian", "2", "0", "dian">>,
     <<"houtian", "8", "dian">>, <<"dian">>}

\* what dateparser.parse may return at time t: nothing, a time that is not
\* after t, a time after t
DateparserAnswers(t) == {None, t, t + 60}

\* a call of parse_time_natural is made
InitParser ==
    /\ now = StartDay
    /\ phase = "constructed"
    /\ faults = {}
    /\ reminders = EmptyMap
    /\ heap = EmptyMap
    /\ file = [st |-> "none", data |-> EmptyMap]
    /\ tasks = EmptyMap
    /\ running_tasks = EmptyMap
    /\ created = 0
    /\ restarts = 0
    /\ \E p \in Phrases, c \in Clocks :
       \E a1 \in DateparserAnswers(c), a2 \in DateparserAnswers(c) :
          parser = [time_str |-> p, clock |-> c, answers |-> <<a1, a2>>,
                    state |-> "called", result |-> None, by |-> "none"]

\* the call returns
Resolve ==
    /\ parser.state = "called"
    /\ LET r == parse_time_natural(parser.time_str, parser.clock, parser.answers)
       IN parser' = [parser EXCEPT !.state = "returned", !.result = r.result,
                                   !.by = r.by]
    /\ UNCHANGED <<now, phase, faults, reminders, heap, file, tasks,
                   running_tasks, created, restarts>>

NextParser == Resolve

SpecParser == InitParser /\ [][NextParser]_vars

Returned == parser.state = "returned"

\* C17: a timestamp parse_time_natural returns is strictly after the clock
\* it was called at; otherwise it returns None.
C17_ResolvedAfterNow ==
    Returned => (parser.result = None \/ parser.result > parser.clock)

\* a phrase one strategy resolves to a time that is not after now, and the
\* call has returned something later
C17_Witness ==
    /\ Returned
    /\ parser.result # None /\ parser.result > parser.clock
    /\ parse_relative_days(parser.time_str, parser.clock) # None
    /\ parse_relative_days(parser.time_str, parser.clock) <= parser.clock

\* a phrase "<N><unit>后", which dateparser does not resolve
RelativePhrase(unit) ==
    /\ Len(parser.time_str) >= 3
    /\ parser.time_str[Len(parser.time_str)] = "hou"
    /\ parser.time_str[Len(parser.time_str) - 1] = unit
    /\ \A i \in 1..(Len(parser.time_str) - 2) : Digit(parser.time_str[i])
    /\ parser.answers = <<None, None>>

AmountAsked == NumberEnding(parser.time_str, Len(parser.time_str) - 2)

\* C18: for N > 0 the phrases N分钟后, N小时后 and N天后 resolve to exactly
\* now + N minutes, now + N hours and now + N days.
C18_RelativeIsExact ==
    Returned =>
        /\ (RelativePhrase("fenzhong") /\ AmountAsked > 0)
           => parser.result = parser.clock + AmountAsked * 60
        /\ (RelativePhrase("xiaoshi") /\ AmountAsked > 0)
           => parser.result = parser.clock + AmountAsked * 3600
        /\ (RelativePhrase("tian") /\ AmountAsked > 0)
           => parser.result = parser.clock + AmountAsked * 86400

\* the hour written in the phrase, the AM/PM markers and the date of
\* 今天/明天/后天 left aside
HourAsked ==
    TimeMatch(Without(parser.time_str,
                      {"shangwu", "xiawu", "wanshang", "jintian", "mingtian",
                       "houtian"})).hour

\* C19: a phrase with 下午 or 晚上 and an hour H from 1 to 11 resolves to the
\* hour H + 12, a phrase with 上午 and the hour 12 to the hour 0, with or
\* without a weekday name; on Sunday June 8 at 14:00, 周六晚上9点 resolves to
\* Saturday June 14 at 21:00.
C19_MarkerSetsHour ==
    (Returned /\ parser.result # None /\ parser.answers = <<None, None>>) =>
        /\ ((Has(parser.time_str, "xiawu") \/ Has(parser.time_str, "wanshang"))
               /\ HourAsked \in 1..11)
           => HourOf(parser.result) = HourAsked + 12
        /\ (Has(parser.time_str, "shangwu") /\ HourAsked = 12)
           => HourOf(parser.result) = 0
        /\ (/\ parser.clock = At(FromDate(EpochYear, 6, 8), 14, 0, 0)
            /\ parser.time_str = <<"zhou6", "wanshang", "9", "dian">>)
           => parser.result = At(FromDate(EpochYear, 6, 14), 21, 0, 0)

\* the weekday the phrase names: the first name of weekday_map it contains
WeekdayAsked ==
    WeekdayNum(CHOOSE x \in 1..Len(WeekdayNames) :
                  /\ Has(parser.time_str, WeekdayNames[x])
                  /\ \A y \in 1..(x - 1) : ~Has(parser.time_str, WeekdayNames[y]))

HasWeekday == \E x \in 1..Len(WeekdayNames) : Has(parser.time_str, WeekdayNames[x])

C21_PendingTimerIsRegistered ==
    phase = "running" =>
        \A x \in DOMAIN tasks :
            LiveTask(x) => /\ tasks[x].rid \in DOMAIN running_tasks
                           /\ running_tasks[tasks[x].rid] = x

\* C22: the delivery callback is never invoked for an id whose record is
\* paused (active = false).
C22_PausedNeverDelivered ==
    [][\A x \in DOMAIN tasks :
         Delivers(x) => Record(tasks[x].rid).active]_vars

\* the replies that tell the caller the request failed
FailureReplies == {"missing_id", "not_found", "forbidden", "failed"}

\* C23: a pause, resume or delete that replies with a failure leaves the
\* records, the store, the file, the tasks and the live-task map as they
\* were.
C23_FailureReplyChangesNothing ==
    [][\A u \in Senders, rid \in RidInputs :
         /\ (delete_reply(u, rid) \in FailureReplies /\ DeleteStep(u, rid))
            => UNCHANGED <<reminders, heap, file, tasks, running_tasks>>
         /\ \A a \in BOOLEAN :
            (toggle_reply(u, rid, a) \in FailureReplies /\ ToggleStep(u, rid, a))
            => UNCHANGED <<reminders, heap, file, tasks, running_tasks>>]_vars

\* a fire handler of rid is suspended in delivery
InDelivery(rid) ==
    \E x \in DOMAIN tasks :
        tasks[x].rid = rid /\ tasks[x].pc = "send" /\ ~tasks[x].must_cancel

\* C24: a pause of a recurring reminder that completes while its fire
\* handler is suspended in delivery leaves the record paused with its old
\* due_at and leaves no live task for the id: the fire in flight is
\* cancelled and can neither advance the record nor reschedule it.
C24_PauseCancelsFireInFlight ==
    [][\A u \in Senders, rid \in DOMAIN reminders :
         (/\ toggle_reply(u, rid, FALSE) = "paused"
          /\ Record(rid).repeat_type \in {"daily", "weekly", "monthly"}
          /\ InDelivery(rid)
          /\ ToggleStep(u, rid, FALSE))
         => /\ ~Record(rid)'.active
            /\ Record(rid)'.target_time = Record(rid).target_time
            /\ rid \notin DOMAIN running_tasks'
            /\ LiveTasksOf(rid)' = {}]_vars

====
